---- MODULE Spec2Model ----
(***************************************************************************)
(* A model of django_q/tasks.py: the submission engine (async, _sync),     *)
(* the group/chain coordinator (async_iter, async_chain), the polling      *)
(* retrieval functions (result, fetch, result_group, fetch_group and their *)
(* cache variants, count_group) and the Chain handle, together with the    *)
(* collaborators they talk to: the broker queue and cache, the durable     *)
(* Task store, the signing codec and the worker/monitor pair.              *)
(***************************************************************************)
EXTENDS Integers, Sequences, FiniteSets, TLC

(***************************************************************************)
(* Bounds of the model.                                                    *)
(***************************************************************************)
MaxIds == 3          \* how many ids uuid() hands out in one behaviour
MaxElapsed == 30     \* the elapsed-time reading saturates here (ms)
MaxTicks == 2        \* the pass and sleep counters saturate here

(***************************************************************************)
(* Program constants.                                                      *)
(***************************************************************************)
PollMs == 10         \* time.sleep(0.01)
None == -1           \* Python's None (no id, count or result value is -1)

Waits == {-1, 0, 20}              \* wait argument, in milliseconds
Counts == {0, 1, 2}               \* count argument; 0 stands for None too
DefaultBroker == "default"        \* what get_broker() returns
NoBroker == ""                    \* a broker argument left at None
Brokers == {"default", "alt"}
OptKeys == {"hook", "group", "save", "sync", "cached", "iter_count",
            "iter_cached", "chain"}

VARIABLES
    ConfCACHED,   \* Conf.CACHED, the process-wide cache-default flag
    ConfSYNC,     \* Conf.SYNC, the process-wide synchronous-mode flag
    nextId,       \* the next id uuid() returns
    queue,        \* queue[b]: the payloads enqueued on broker b
    running,      \* the packages a worker has taken and is executing
    store,        \* the durable Task table, in insertion order
    cache,        \* cache[b]: the key-value cache of broker b
    chainH,       \* the fields of one Chain handle
    call,         \* the retrieval call in progress (its frame)
    last,         \* what the most recent submission call did
    subs,         \* every package handed to async, in order
    iterH,        \* the fields of one Iter handle
    qopts,        \* a q_options mapping the caller keeps and passes again
    reader,       \* a cache-mode group read, one cache operation at a time
    deleter       \* a delete_group_cached, one cache operation at a time

others == <<iterH, qopts, reader, deleter>>

vars == <<ConfCACHED, ConfSYNC, nextId, queue, running, store, cache,
          chainH, call, last, subs, others>>

(***************************************************************************)
(* Python dictionaries are functions with a finite domain of strings; a    *)
(* key whose value would be None is left out of the domain.                *)
(***************************************************************************)
EmptyDict == [k \in {} |-> 0]

DictGet(d, k, default) == IF k \in DOMAIN d THEN d[k] ELSE default

DictWithout(d, keys) == [k \in (DOMAIN d) \ keys |-> d[k]]

Min(a, b) == IF a < b THEN a ELSE b

(***************************************************************************)
(* The signing codec: dumps wraps a value in an envelope, loads opens it.  *)
(***************************************************************************)
dumps(x) == <<"signed", x>>

loads(p) == p[2]

(***************************************************************************)
(* Cache keys: '<list_key>:<id>', '<list_key>:<group>:keys' and            *)
(* '<list_key>:<group>:args'.                                              *)
(***************************************************************************)
TaskKey(id) == <<"task", id>>

GroupKey(g) == <<"keys", g>>

ArgsKey(g) == <<"args", g>>


(***************************************************************************)
(* The effects of a submission are threaded through a record of the parts  *)
(* of the state a submission can touch, plus two counters for the call in  *)
(* progress: enq counts broker.enqueue calls, exe counts in-process runs.  *)
(***************************************************************************)
World ==
    [nextId |-> nextId, queue |-> queue, store |-> store, cache |-> cache,
     subs |-> subs, enq |-> 0, exe |-> 0]

(***************************************************************************)
(* The monitor's save step: the finished task goes to the cache of the     *)
(* monitor's broker when the package says cached, else to the Task table.  *)
(* A cached member of a group is also appended to the group's key list.    *)
(***************************************************************************)
save_task(w, rec) == [w EXCEPT !.store = Append(@, rec)]

save_cached(w, b, rec) ==
    LET g == DictGet(rec, "group", 0)
        key == TaskKey(rec.id)
        c0 == w.cache[b]
        c1 == (key :> dumps(rec)) @@ c0
        oldList == IF GroupKey(g) \in DOMAIN c0 THEN c0[GroupKey(g)] ELSE <<>>
        c2 == IF g # 0 THEN (GroupKey(g) :> Append(oldList, key)) @@ c1 ELSE c1
    IN [w EXCEPT !.cache[b] = c2]

save(w, b, rec) ==
    IF DictGet(rec, "cached", FALSE) THEN save_cached(w, b, rec)
    ELSE save_task(w, rec)

(***************************************************************************)
(* async: option extraction from the q_options dict or the kwargs.         *)
(***************************************************************************)
async_options(kw) ==
    IF "q_options" \in DOMAIN kw THEN kw["q_options"] ELSE kw

async_kwargs(kw) ==
    IF "q_options" \in DOMAIN kw THEN DictWithout(kw, {"q_options"})
    ELSE DictWithout(kw, OptKeys \cup {"broker"})

async_broker(kw) == DictGet(async_options(kw), "broker", DefaultBroker)

async_opts(kw) ==
    LET o == async_options(kw)
    IN [k \in ((DOMAIN o) \cap OptKeys) \cup {"cached"} |->
            IF k \in DOMAIN o THEN o[k] ELSE ConfCACHED]

async_task(tag, func, args, kw) ==
    [id |-> tag, name |-> tag, func |-> func, args |-> args,
     kwargs |-> async_kwargs(kw)] @@ async_opts(kw)

async_is_sync_field_only(task) == DictGet(task, "sync", FALSE)

async_is_sync(task) == DictGet(task, "sync", FALSE) \/ ConfSYNC

(***************************************************************************)
(* A chain step is a tuple (func,), (func, args) or (func, args, kwargs),  *)
(* or a bare function reference; items holds the components.               *)
(***************************************************************************)
Step(func, args, kwargs) == [tuple |-> TRUE, items |-> <<func, args, kwargs>>]

StepTuple(step) == step.items

chain_first_is_last(chain) == StepTuple(chain[Len(chain)])

chain_first(chain) == StepTuple(Head(chain))

RECURSIVE async(_, _, _, _, _, _)
RECURSIVE async_chain(_, _, _, _, _, _, _, _)
RECURSIVE worker_monitor(_, _, _, _)

(***************************************************************************)
(* The worker/monitor pair on one package: run it (the outcome is the head *)
(* of outs), save the record, and resubmit the head of a non-empty chain   *)
(* with the package's group, cached and sync values on the same broker.    *)
(***************************************************************************)
worker_monitor(w, b, task, outs) ==
    LET out == Head(outs)
        rec == [result |-> out.result, success |-> out.success] @@ task
        w1 == save([w EXCEPT !.exe = @ + 1], b, rec)
        chain == DictGet(task, "chain", <<>>)
    IN IF chain # <<>>
       THEN async_chain(w1, chain, task.group, task.cached, task.sync, b,
                        "worker", Tail(outs)).w
       ELSE w1

_sync_returns_result(w, pack, outs) ==
    LET task == loads(pack)
    IN [w |-> worker_monitor(w, DefaultBroker, task, outs),
        ret |-> Head(outs).result]

_sync(w, pack, outs) ==
    LET task == loads(pack)
    IN [w |-> worker_monitor(w, DefaultBroker, task, outs), ret |-> task.id]

async(w, func, args, kw, by, outs) ==
    LET tag == w.nextId
        broker == async_broker(kw)
        task == async_task(tag, func, args, kw)
        pack == dumps(task)
        sync == async_is_sync(task)
        w1 == [w EXCEPT !.nextId = @ + 1,
                        !.subs = Append(@, [task |-> task, broker |-> broker,
                                            sync |-> sync, by |-> by])]
    IN IF sync THEN _sync(w1, pack, outs)
       ELSE [w |-> [w1 EXCEPT !.queue[broker] = Append(@, pack),
                              !.enq = @ + 1],
             ret |-> task.id]

(***************************************************************************)
(* async_chain: pop the first step, attach the rest as chain, submit.      *)
(* kwargs is the dict the call passes on; when the step carries its own    *)
(* kwargs dict that dict is the one written to.                            *)
(***************************************************************************)
async_chain_kwargs_no_pop(chain, group, cached, sync, broker) ==
    LET task == StepTuple(Head(chain))
        kwargs0 == IF Len(task) > 2 THEN task[3] ELSE EmptyDict
    IN ("chain" :> chain) @@ ("group" :> group) @@ ("cached" :> cached)
       @@ ("sync" :> sync)
       @@ ("broker" :> (IF broker = NoBroker THEN DefaultBroker ELSE broker))
       @@ kwargs0

async_chain_kwargs(chain, group, cached, sync, broker) ==
    LET task == StepTuple(Head(chain))
        kwargs0 == IF Len(task) > 2 THEN task[3] ELSE EmptyDict
    IN ("chain" :> Tail(chain)) @@ ("group" :> group) @@ ("cached" :> cached)
       @@ ("sync" :> sync)
       @@ ("broker" :> (IF broker = NoBroker THEN DefaultBroker ELSE broker))
       @@ kwargs0

async_chain_group_always_fresh(next, group0) == next

async_chain_group(next, group0) == IF group0 = 0 THEN next ELSE group0

async_chain(w, chain, group0, cached, sync, broker, by, outs) ==
    LET fresh == (group0 = 0)
        group == async_chain_group(w.nextId, group0)
        w1 == IF fresh THEN [w EXCEPT !.nextId = @ + 1] ELSE w
        task == chain_first(chain)
        args == IF Len(task) > 1 THEN task[2] ELSE <<>>
        kwargs == async_chain_kwargs(chain, group, cached, sync, broker)
    IN IF chain = <<>>
       THEN [w |-> w1, ret |-> None, raised |-> TRUE]
       ELSE [w |-> async(w1, task[1], args, kwargs, by, outs).w,
             ret |-> group, raised |-> FALSE]


(***************************************************************************)
(* async_iter: one fresh group id, the argument list saved in the cache of *)
(* the chosen broker, and one async call per element of args_iter.  An     *)
(* element is a tuple (tuple is TRUE, v its components) or a single value. *)
(***************************************************************************)
async_iter_options_keep_cached(kw, iter_group, iter_count) ==
    LET options == async_options(kw)
        o1 == DictWithout(options, {"hook"})
        o2 == ("broker" :> DictGet(o1, "broker", DefaultBroker)) @@ o1
    IN ("group" :> iter_group) @@ ("iter_count" :> iter_count) @@ o2

async_iter_options(kw, iter_group, iter_count) ==
    LET options == async_options(kw)
        o1 == DictWithout(options, {"hook"})
        o2 == ("broker" :> DictGet(o1, "broker", DefaultBroker)) @@ o1
        o3 == ("group" :> iter_group) @@ ("iter_count" :> iter_count) @@ o2
        o4 == IF DictGet(o3, "cached", FALSE)
              THEN ("iter_cached" :> o3["cached"]) @@ o3
              ELSE o3
    IN ("cached" :> TRUE) @@ o4

IterArgs(a) == IF ~a.tuple THEN <<a.v>> ELSE a.v

RECURSIVE async_iter_loop(_, _, _, _, _)
async_iter_loop(w, func, args_iter, options, outs) ==
    IF args_iter = <<>> THEN w
    ELSE LET willSync == DictGet(options, "sync", FALSE) \/ ConfSYNC
             w1 == async(w, func, IterArgs(Head(args_iter)), options, "caller",
                         outs).w
         IN async_iter_loop(w1, func, Tail(args_iter), options,
                            IF willSync THEN Tail(outs) ELSE outs)

async_iter(w, func, args_iter, kw, outs) ==
    LET iter_count == Len(args_iter)
        iter_group == w.nextId
        options == async_iter_options(kw, iter_group, iter_count)
        broker == options["broker"]
        w1 == [w EXCEPT !.nextId = @ + 1,
                        !.cache[broker] =
                            (ArgsKey(iter_group) :> dumps(args_iter)) @@ @]
    IN [w |-> async_iter_loop(w1, func, args_iter, options, outs),
        ret |-> iter_group]

(***************************************************************************)
(* delete_group and its two backends.  Task.delete_group removes the group *)
(* label from the records, or the records themselves when tasks is set.    *)
(* delete_group_cached hands the key list it read to delete_many; when the *)
(* index is missing that list is None and delete_many raises.              *)
(***************************************************************************)
RECURSIVE Task_delete_group(_, _, _)
Task_delete_group(st, group_id, tasks) ==
    IF st = <<>> THEN <<>>
    ELSE LET rec == Head(st)
             rest == Task_delete_group(Tail(st), group_id, tasks)
         IN IF DictGet(rec, "group", 0) # group_id THEN <<rec>> \o rest
            ELSE IF tasks THEN rest
            ELSE <<DictWithout(rec, {"group"})>> \o rest

delete_group_cached_index_only(w, group_id, broker) ==
    LET b == IF broker = NoBroker THEN DefaultBroker ELSE broker
        group_key == GroupKey(group_id)
        c == w.cache[b]
    IN IF group_key \notin DOMAIN c
       THEN [w |-> w, raised |-> TRUE]
       ELSE [w |-> [w EXCEPT !.cache[b] =
                          [k \in (DOMAIN c) \ {group_key} |-> c[k]]],
             raised |-> FALSE]

delete_group_cached(w, group_id, broker) ==
    LET b == IF broker = NoBroker THEN DefaultBroker ELSE broker
        group_key == GroupKey(group_id)
        c == w.cache[b]
    IN IF group_key \notin DOMAIN c
       THEN [w |-> w, raised |-> TRUE]
       ELSE LET gone == {c[group_key][i] : i \in 1..Len(c[group_key])}
                         \cup {group_key}
            IN [w |-> [w EXCEPT !.cache[b] =
                          [k \in (DOMAIN c) \ gone |-> c[k]]],
                raised |-> FALSE]

(***************************************************************************)
(* delete_cached: one cache.delete of the task's key.  The group index     *)
(* that lists the key is left as it is.                                    *)
(***************************************************************************)
delete_cached(w, task_id, broker) ==
    LET b == IF broker = NoBroker THEN DefaultBroker ELSE broker
        c == w.cache[b]
    IN [w EXCEPT !.cache[b] = [k \in (DOMAIN c) \ {TaskKey(task_id)} |-> c[k]]]

delete_group(w, group_id, tasks, cached) ==
    IF cached THEN delete_group_cached(w, group_id, NoBroker)
    ELSE [w |-> [w EXCEPT !.store = Task_delete_group(@, group_id, tasks)],
          raised |-> FALSE]


(***************************************************************************)
(* The durable Task table's queries.                                       *)
(***************************************************************************)
Task_rows(task_id) ==
    LET Match(rec) == rec.id = task_id \/ rec.name = task_id
    IN SelectSeq(store, Match)

Task_get_result(task_id) ==
    IF Task_rows(task_id) = <<>> THEN None ELSE Task_rows(task_id)[1].result

Task_get_task_group(group_id, failures) ==
    LET Match(rec) == /\ DictGet(rec, "group", 0) = group_id
                      /\ (rec.success \/ failures)
    IN SelectSeq(store, Match)

Task_get_result_group(group_id, failures) ==
    LET rows == Task_get_task_group(group_id, failures)
    IN [i \in 1..Len(rows) |-> rows[i].result]

Task_get_group_count(group_id, failures) ==
    LET Member(rec) == DictGet(rec, "group", 0) = group_id
        Failed(rec) == DictGet(rec, "group", 0) = group_id /\ ~rec.success
    IN IF failures THEN Len(SelectSeq(store, Failed))
       ELSE Len(SelectSeq(store, Member))

(***************************************************************************)
(* Python truthiness of a result value and of a list.                      *)
(***************************************************************************)
Truthy(v) == v # None /\ v # 0

ListTruthy(l) == Len(l) > 0

(***************************************************************************)
(* The Task object fetch_cached and fetch_group_cached build from a cached *)
(* record: fetch_group_cached also copies the group.                       *)
(***************************************************************************)
TaskFields == {"id", "name", "func", "hook", "args", "kwargs", "result",
               "success"}

TaskObject(task, fields) == [k \in (DOMAIN task) \cap fields |-> task[k]]

(***************************************************************************)
(* count_group_cached and count_group.  The cached count is None when the  *)
(* group's key list is missing or empty.                                   *)
(***************************************************************************)
count_group_cached(group_id, failures, broker) ==
    LET b == IF broker = NoBroker THEN DefaultBroker ELSE broker
        c == cache[b]
        group_list == IF GroupKey(group_id) \in DOMAIN c
                      THEN c[GroupKey(group_id)] ELSE <<>>
        Failed(task_key) == ~loads(c[task_key]).success
    IN IF ~ListTruthy(group_list) THEN None
       ELSE IF ~failures THEN Len(group_list)
       ELSE Len(SelectSeq(group_list, Failed))

count_group(group_id, failures, cached) ==
    IF cached THEN count_group_cached(group_id, failures, NoBroker)
    ELSE Task_get_group_count(group_id, failures)

(***************************************************************************)
(* One pass of a retrieval loop: what the read found (found is the loop's  *)
(* truth test) and the value the function would return.                    *)
(***************************************************************************)
result_read(task_id) ==
    LET r == Task_get_result(task_id)
    IN [found |-> Truthy(r), val |-> r]

result_cached_read(task_id, broker) ==
    LET c == cache[broker]
    IN IF TaskKey(task_id) \in DOMAIN c
       THEN [found |-> TRUE, val |-> loads(c[TaskKey(task_id)]).result]
       ELSE [found |-> FALSE, val |-> None]

fetch_read(task_id) ==
    LET rows == Task_rows(task_id)
    IN IF rows # <<>> THEN [found |-> TRUE, val |-> rows[1]]
       ELSE [found |-> FALSE, val |-> None]

fetch_cached_read(task_id, broker) ==
    LET c == cache[broker]
    IN IF TaskKey(task_id) \in DOMAIN c
       THEN [found |-> TRUE,
             val |-> TaskObject(loads(c[TaskKey(task_id)]), TaskFields)]
       ELSE [found |-> FALSE, val |-> None]

result_group_read(group_id, failures) ==
    LET r == Task_get_result_group(group_id, failures)
    IN [found |-> ListTruthy(r), val |-> r]

fetch_group_read(group_id, failures) ==
    LET r == Task_get_task_group(group_id, failures)
    IN [found |-> ListTruthy(r), val |-> r]

group_cached_tasks(group_id, failures, broker) ==
    LET c == cache[broker]
        group_list == c[GroupKey(group_id)]
        Keep(task_key) == loads(c[task_key]).success \/ failures
        keys == SelectSeq(group_list, Keep)
    IN [i \in 1..Len(keys) |-> loads(c[keys[i]])]

group_cached_found(group_id, broker) ==
    /\ GroupKey(group_id) \in DOMAIN cache[broker]
    /\ ListTruthy(cache[broker][GroupKey(group_id)])

result_group_cached_read(group_id, failures, broker) ==
    IF group_cached_found(group_id, broker)
    THEN LET tasks == group_cached_tasks(group_id, failures, broker)
         IN [found |-> TRUE, val |-> [i \in 1..Len(tasks) |-> tasks[i].result]]
    ELSE [found |-> FALSE, val |-> None]

fetch_group_cached_read(group_id, failures, broker) ==
    IF group_cached_found(group_id, broker)
    THEN LET tasks == group_cached_tasks(group_id, failures, broker)
         IN [found |-> TRUE,
             val |-> [i \in 1..Len(tasks) |->
                        TaskObject(tasks[i], TaskFields \cup {"group"})]]
    ELSE [found |-> FALSE, val |-> None]

(***************************************************************************)
(* The cached flag of result, fetch, result_group and fetch_group selects  *)
(* the cache variant, which reads through get_broker().                    *)
(***************************************************************************)
Read(fn, cached, target, failures) ==
    IF fn = "result" THEN
        IF cached THEN result_cached_read(target, DefaultBroker)
        ELSE result_read(target)
    ELSE IF fn = "fetch" THEN
        IF cached THEN fetch_cached_read(target, DefaultBroker)
        ELSE fetch_read(target)
    ELSE IF fn = "result_group" THEN
        IF cached THEN result_group_cached_read(target, failures, DefaultBroker)
        ELSE result_group_read(target, failures)
    ELSE
        IF cached THEN fetch_group_cached_read(target, failures, DefaultBroker)
        ELSE fetch_group_read(target, failures)

(***************************************************************************)
(* The loops' exit tests.  TimedOut is (elapsed_ms >= wait >= 0); the      *)
(* count loop tests it only when wait is truthy, and result_group_cached   *)
(* writes it with wait > 0.                                                *)
(***************************************************************************)
TimedOut(elapsed, wait) == elapsed >= wait /\ wait >= 0

CountTimedOut(fn, cached, elapsed, wait) ==
    /\ wait # 0
    /\ IF fn = "result_group" /\ cached
       THEN elapsed >= wait /\ wait > 0
       ELSE TimedOut(elapsed, wait)

CountRead(cached, group_id) ==
    IF cached THEN count_group_cached(group_id, FALSE, NoBroker)
    ELSE count_group(group_id, FALSE, ConfCACHED)

(***************************************************************************)
(* Inputs the environment draws from.                                      *)
(***************************************************************************)
MaxChain == 2        \* longest chain a handle is built to
MaxSubmits == 2      \* plain async calls in one behaviour
MaxWorkers == 2      \* packages executing at the same time
MaxIterArgs == 1     \* most argument sets an Iter handle is built to
UserGroup == 9       \* a group id chosen by the caller

Outcomes ==
    {[result |-> 0, success |-> TRUE], [result |-> 7, success |-> TRUE],
     [result |-> 7, success |-> FALSE]}

ChainOutcomes ==
    {[result |-> 7, success |-> TRUE], [result |-> 7, success |-> FALSE]}

OutSeqs(n) == [1..n -> Outcomes]

SubmitKws ==
    {[x |-> 1],
     [x |-> 1, group |-> UserGroup, cached |-> TRUE],
     [x |-> 1, group |-> UserGroup, cached |-> FALSE],
     [sync |-> TRUE],
     [x |-> 1, q_options |-> [broker |-> "alt", group |-> UserGroup]]}

PollKws ==
    {[x |-> 1],
     [x |-> 1, group |-> UserGroup, cached |-> TRUE],
     [x |-> 1, group |-> UserGroup, cached |-> FALSE]}

IterKws == {EmptyDict, [cached |-> TRUE, hook |-> "h"], [sync |-> TRUE]}

IterArgSets ==
    {<<>>, <<[tuple |-> FALSE, v |-> 1]>>,
     <<[tuple |-> FALSE, v |-> 1], [tuple |-> TRUE, v |-> <<2, 3>>]>>}

InitChains ==
    {<<>>, <<[tuple |-> FALSE, items |-> <<"f1">>]>>,
     <<[tuple |-> TRUE, items |-> <<"f1", <<1>>>>]>>}

FuncAt(i) == IF i = 1 THEN "f1" ELSE IF i = 2 THEN "f2" ELSE "f3"

Delays == {PollMs, 2 * PollMs}    \* how long one sleep is seen to take

NoCall ==
    [pc |-> "idle", fn |-> "none", cached |-> FALSE, target |-> 0, wait |-> 0,
     count |-> 0, failures |-> FALSE, handle |-> FALSE, elapsed |-> 0,
     prev |-> None, cchecks |-> 0, checks |-> 0, sleeps |-> 0,
     cmatch |-> FALSE, absent |-> TRUE, val |-> <<>>, beat |-> 0]

NoLast == [op |-> "none", ret |-> 0, enq |-> 0, exe |-> 0, base |-> 0,
           raised |-> FALSE, inp |-> <<>>]

NoReader == [pc |-> "idle", fn |-> "none", group |-> 0, failures |-> FALSE,
             keys |-> <<>>, i |-> 0, out |-> <<>>, absent |-> FALSE,
             raised |-> FALSE]

NoDeleter == [pc |-> "idle", group |-> 0, keys |-> <<>>, found |-> FALSE,
              raised |-> FALSE]

CachedMembersIn(ch, b, g) ==
    IF GroupKey(g) \in DOMAIN ch[b] THEN Len(ch[b][GroupKey(g)]) ELSE 0

PlainSubs ==
    Cardinality({i \in 1..Len(subs) :
        /\ subs[i].by = "caller"
        /\ "chain" \notin DOMAIN subs[i].task
        /\ "iter_count" \notin DOMAIN subs[i].task})

(***************************************************************************)
(* The state after import: nothing queued, stored or cached, and one Chain *)
(* handle as its constructor leaves it, with the default cached and sync   *)
(* flags or (anyFlags) with flags the caller passed.                       *)
(***************************************************************************)
InitCore(syncs, chains, groups, anyFlags) ==
    /\ ConfCACHED \in BOOLEAN
    /\ ConfSYNC \in syncs
    /\ nextId = 1
    /\ queue = [b \in Brokers |-> <<>>]
    /\ running = {}
    /\ store = <<>>
    /\ cache = [b \in Brokers |-> <<>>]
    /\ \E ch \in chains, g \in groups, c \in BOOLEAN, sy \in BOOLEAN :
          /\ IF anyFlags THEN ConfSYNC => sy
             ELSE c = ConfCACHED /\ sy = ConfSYNC
          /\ chainH = [chain |-> ch, group |-> g, broker |-> DefaultBroker,
                       cached |-> c, sync |-> sy, started |-> FALSE]
    /\ call = NoCall
    /\ last = NoLast
    /\ subs = <<>>
    /\ iterH = [func |-> "f1", args |-> <<>>, kwargs |-> EmptyDict, id |-> 0,
                broker |-> DefaultBroker, cached |-> ConfCACHED,
                sync |-> ConfSYNC, started |-> FALSE]
    /\ reader = NoReader
    /\ deleter = NoDeleter

InitWith(syncs, chains, groups, anyFlags) ==
    /\ InitCore(syncs, chains, groups, anyFlags)
    /\ qopts = EmptyDict

Init == InitWith(BOOLEAN, InitChains, {0, UserGroup}, TRUE)

(***************************************************************************)
(* The ids the cluster will still take: every queued or running package    *)
(* with a non-empty chain is followed by one resubmission per chain step.  *)
(***************************************************************************)
ChainLeft(task) == Len(DictGet(task, "chain", <<>>))

RECURSIVE OwedSeq(_)
OwedSeq(q) ==
    IF q = <<>> THEN 0 ELSE ChainLeft(loads(Head(q))) + OwedSeq(Tail(q))

RECURSIVE OwedSet(_)
OwedSet(S) ==
    IF S = {} THEN 0
    ELSE LET r == CHOOSE x \in S : TRUE
         IN ChainLeft(r.task) + OwedSet(S \ {r})

IdsOwed(q, run) ==
    OwedSeq(q[DefaultBroker]) + OwedSeq(q["alt"]) + OwedSet(run)

(***************************************************************************)
(* The new world becomes the state.  A caller's call is made only while    *)
(* the ids it takes, and those its chain will take in the cluster, are     *)
(* within MaxIds; the cluster itself is never held back.                   *)
(***************************************************************************)
Effects(w) ==
    /\ nextId' = w.nextId
    /\ queue' = w.queue
    /\ store' = w.store
    /\ cache' = w.cache
    /\ subs' = w.subs

Commit(w) ==
    /\ w.nextId + IdsOwed(w.queue, running) <= MaxIds + 1
    /\ Effects(w)

(***************************************************************************)
(* A caller submits one task with async.                                   *)
(***************************************************************************)
Submit(func, args, kw) ==
    /\ PlainSubs < MaxSubmits
    /\ LET willSync == DictGet(async_options(kw), "sync", FALSE) \/ ConfSYNC
       IN \E outs \in OutSeqs(IF willSync THEN 1 ELSE 0) :
            LET r == async(World, func, args, kw, "caller", outs)
            IN /\ Commit(r.w)
               /\ last' = [op |-> "async", ret |-> r.ret, enq |-> r.w.enq,
                           exe |-> r.w.exe, base |-> Len(subs),
                           raised |-> FALSE, inp |-> kw]
    /\ UNCHANGED <<others, ConfCACHED, ConfSYNC, running, chainH, call>>

(***************************************************************************)
(* What async leaves of the options dict it was given: the broker key and  *)
(* every option key are popped from that dict itself.                      *)
(***************************************************************************)
async_options_left(options) == DictWithout(options, OptKeys \cup {"broker"})

(***************************************************************************)
(* A caller submits one task passing the mapping it holds in qopts as      *)
(* q_options; the mapping object is shared with the call.                  *)
(***************************************************************************)
SubmitShared(func, args) ==
    /\ PlainSubs < MaxSubmits
    /\ LET kw == ("q_options" :> qopts) @@ [x |-> 1]
           willSync == DictGet(async_options(kw), "sync", FALSE) \/ ConfSYNC
       IN \E outs \in OutSeqs(IF willSync THEN 1 ELSE 0) :
            LET r == async(World, func, args, kw, "caller", outs)
            IN /\ Commit(r.w)
               /\ last' = [op |-> "async", ret |-> r.ret, enq |-> r.w.enq,
                           exe |-> r.w.exe, base |-> Len(subs),
                           raised |-> FALSE, inp |-> kw]
    /\ qopts' = async_options_left(qopts)
    /\ UNCHANGED <<iterH, reader, deleter, ConfCACHED, ConfSYNC, running,
                   chainH, call>>

(***************************************************************************)
(* A caller fans a function out over an argument list with async_iter.     *)
(***************************************************************************)
SubmitIter(func, args_iter, kw) ==
    /\ subs = <<>>
    /\ LET willSync == DictGet(async_options(kw), "sync", FALSE) \/ ConfSYNC
       IN \E outs \in OutSeqs(IF willSync THEN Len(args_iter) ELSE 0) :
            LET r == async_iter(World, func, args_iter, kw, outs)
            IN /\ Commit(r.w)
               /\ last' = [op |-> "async_iter", ret |-> r.ret, enq |-> r.w.enq,
                           exe |-> r.w.exe, base |-> Len(subs),
                           raised |-> FALSE, inp |-> args_iter]
    /\ UNCHANGED <<others, ConfCACHED, ConfSYNC, running, chainH, call>>

(***************************************************************************)
(* Chain.append and Chain.run.                                             *)
(***************************************************************************)
ChainAppend(func, args, kwargs) ==
    /\ Len(chainH.chain) < MaxChain
    /\ LET chain1 == Append(chainH.chain, Step(func, args, kwargs))
           d == delete_group(World, chainH.group, FALSE, ConfCACHED)
       IN IF ~chainH.started
          THEN /\ chainH' = [chainH EXCEPT !.chain = chain1]
               /\ last' = [NoLast EXCEPT !.op = "append", !.ret = Len(chain1)]
               /\ UNCHANGED <<store, cache>>
          ELSE /\ chainH' = [chainH EXCEPT !.chain = chain1,
                                            !.started = d.raised]
               /\ last' = [NoLast EXCEPT !.op = "append",
                                          !.ret = IF d.raised THEN None
                                                  ELSE Len(chain1),
                                          !.raised = d.raised]
               /\ store' = d.w.store
               /\ cache' = d.w.cache
    /\ UNCHANGED <<others, ConfCACHED, ConfSYNC, nextId, queue, running, call,
                   subs>>

ChainRunSteps(chain, kwargs) ==
    IF Len(StepTuple(chain[1])) > 2
    THEN [chain EXCEPT ![1].items[3] = kwargs]
    ELSE chain

ChainRun ==
    /\ LET willSync == chainH.sync \/ ConfSYNC
           n == Len(chainH.chain)
       IN \E outs \in [1..(IF willSync THEN n ELSE 0) -> ChainOutcomes] :
            LET r == async_chain(World, chainH.chain, chainH.group,
                                 chainH.cached, chainH.sync, chainH.broker,
                                 "caller", outs)
                kwargs == async_chain_kwargs(chainH.chain, r.ret, chainH.cached,
                                             chainH.sync, chainH.broker)
            IN /\ Commit(r.w)
               /\ chainH' = IF r.raised THEN chainH
                            ELSE [chainH EXCEPT
                                    !.chain = ChainRunSteps(@, kwargs),
                                    !.group = r.ret, !.started = TRUE]
               /\ last' = [op |-> "async_chain", ret |-> r.ret,
                           enq |-> r.w.enq, exe |-> r.w.exe, base |-> Len(subs),
                           raised |-> r.raised,
                           inp |-> [chain |-> chainH.chain,
                                    group |-> chainH.group,
                                    cached |-> chainH.cached,
                                    sync |-> chainH.sync]]
    /\ UNCHANGED <<others, ConfCACHED, ConfSYNC, running, call>>

(***************************************************************************)
(* A caller deletes a group with delete_group.  members is the number of   *)
(* keys the group's index in the default cache listed before the call.     *)
(***************************************************************************)
DeleteGroup(group_id, tasks, cached) ==
    /\ LET d == delete_group(World, group_id, tasks, cached)
       IN /\ store' = d.w.store
          /\ cache' = d.w.cache
          /\ last' = [NoLast EXCEPT
                        !.op = "delete_group", !.raised = d.raised,
                        !.inp = [group |-> group_id, tasks |-> tasks,
                                 cached |-> cached,
                                 members |->
                                    CachedMembersIn(cache, DefaultBroker,
                                                    group_id)]]
    /\ UNCHANGED <<others, ConfCACHED, ConfSYNC, nextId, queue, running,
                   chainH, call, subs>>

(***************************************************************************)
(* Iter.append and Iter.run.  append stores the tuple of its arguments;    *)
(* run writes the handle's cached, sync and broker into its kwargs and     *)
(* fans out with async_iter.                                               *)
(***************************************************************************)
IterAppend(a) ==
    /\ Len(iterH.args) < MaxIterArgs
    /\ iterH' = [iterH EXCEPT !.args = Append(@, [tuple |-> TRUE, v |-> <<a>>]),
                              !.started = FALSE]
    /\ last' = [NoLast EXCEPT !.op = "iter_append",
                              !.ret = Len(iterH.args) + 1]
    /\ UNCHANGED <<ConfCACHED, ConfSYNC, nextId, queue, running, store, cache,
                   chainH, call, subs, qopts, reader, deleter>>

IterRunKwargs ==
    ("cached" :> iterH.cached) @@ ("sync" :> iterH.sync)
        @@ ("broker" :> iterH.broker) @@ iterH.kwargs

IterRun ==
    /\ LET willSync == iterH.sync \/ ConfSYNC
           kwargs == IterRunKwargs
       IN \E outs \in [1..(IF willSync THEN Len(iterH.args) ELSE 0) ->
                            ChainOutcomes] :
            LET r == async_iter(World, iterH.func, iterH.args, kwargs, outs)
            IN /\ Commit(r.w)
               /\ iterH' = [iterH EXCEPT !.kwargs = kwargs, !.id = r.ret,
                                         !.started = TRUE]
               /\ last' = [op |-> "iter_run", ret |-> r.ret, enq |-> r.w.enq,
                           exe |-> r.w.exe, base |-> Len(subs),
                           raised |-> FALSE, inp |-> iterH.args]
    /\ UNCHANGED <<ConfCACHED, ConfSYNC, running, chainH, call, qopts, reader,
                   deleter>>

(***************************************************************************)
(* The cluster: a worker takes the head of a broker's queue, and later     *)
(* finishes it (worker, then monitor) with some outcome.                   *)
(***************************************************************************)
WorkerTake(b) ==
    /\ queue[b] # <<>>
    /\ Cardinality(running) < MaxWorkers
    /\ running' = running \cup {[task |-> loads(Head(queue[b])), broker |-> b]}
    /\ queue' = [queue EXCEPT ![b] = Tail(@)]
    /\ UNCHANGED <<others, ConfCACHED, ConfSYNC, nextId, store, cache, chainH, call,
                   last, subs>>

WorkerComplete(r, out) ==
    /\ r \in running
    /\ Effects(worker_monitor(World, r.broker, r.task, <<out>>))
    /\ running' = running \ {r}
    /\ UNCHANGED <<others, ConfCACHED, ConfSYNC, chainH, call, last>>

Worker ==
    \/ \E b \in Brokers : WorkerTake(b)
    \/ \E r \in running, out \in Outcomes : WorkerComplete(r, out)

ChainWorker ==
    \/ WorkerTake(DefaultBroker)
    \/ \E r \in running, out \in ChainOutcomes : WorkerComplete(r, out)

(***************************************************************************)
(* A behaviour follows one retrieval call: a call writes neither store nor *)
(* cache and keeps nothing from an earlier call (start is read anew), so   *)
(* what a later call meets is what a first call meets in another           *)
(* behaviour.  The call takes one step per pass of its loops: the check,   *)
(* and when                                                                *)
(* the check fails and the wait has not run out, the sleep that follows it *)
(* (seen to take d ms).  elapsed is (time.time() - start) * 1000; prev is  *)
(* its value at the previous check; cmatch tells whether the count loop    *)
(* ended on a matching count; the counters count passes and sleeps, and    *)
(* beat flips at every sleep, so that a pass of a loop is a step of its    *)
(* own however long the loop has run.  A call that has returned a value    *)
(* holds it in val as <<value>>; absent tells that it returned None.       *)
(***************************************************************************)
Tick(n) == Min(n + 1, MaxTicks)

IsGroupFn(fn) == fn \in {"result_group", "fetch_group"}

NewCall(fn, cached, target, wait, count, failures, handle) ==
    [NoCall EXCEPT !.pc = IF IsGroupFn(fn) /\ count # 0 THEN "count"
                          ELSE "read",
                   !.fn = fn, !.cached = cached, !.target = target,
                   !.wait = wait, !.count = count, !.failures = failures,
                   !.handle = handle]

CallStart(fn, cached, target, wait, count, failures) ==
    /\ call.pc = "idle"
    /\ call' = NewCall(fn, cached, target, wait, count, failures, FALSE)
    /\ UNCHANGED <<others, ConfCACHED, ConfSYNC, nextId, queue, running, store, cache,
                   chainH, last, subs>>

CountCheck(d) ==
    /\ call.pc = "count"
    /\ LET c == CountRead(call.cached, call.target)
       IN call' =
            IF c = call.count
            THEN [call EXCEPT !.pc = "read", !.cchecks = Tick(@),
                              !.cmatch = TRUE]
            ELSE IF CountTimedOut(call.fn, call.cached, call.elapsed,
                                  call.wait)
            THEN [call EXCEPT !.pc = "read", !.cchecks = Tick(@)]
            ELSE [call EXCEPT !.cchecks = Tick(@), !.sleeps = Tick(@),
                              !.prev = call.elapsed,
                              !.elapsed = Min(@ + d, MaxElapsed),
                              !.beat = 1 - @]
    /\ UNCHANGED <<others, ConfCACHED, ConfSYNC, nextId, queue, running, store, cache,
                   chainH, last, subs>>

ReadCheck(d) ==
    /\ call.pc = "read"
    /\ LET r == Read(call.fn, call.cached, call.target, call.failures)
       IN call' =
            IF r.found
            THEN [call EXCEPT !.pc = "done", !.checks = Tick(@),
                              !.absent = FALSE, !.val = <<r.val>>]
            ELSE IF TimedOut(call.elapsed, call.wait)
            THEN [call EXCEPT !.pc = "done", !.checks = Tick(@),
                              !.absent = TRUE, !.val = <<>>]
            ELSE [call EXCEPT !.checks = Tick(@), !.sleeps = Tick(@),
                              !.prev = call.elapsed,
                              !.elapsed = Min(@ + d, MaxElapsed),
                              !.beat = 1 - @]
    /\ UNCHANGED <<others, ConfCACHED, ConfSYNC, nextId, queue, running, store, cache,
                   chainH, last, subs>>

(***************************************************************************)
(* Chain.result and Chain.fetch: nothing is read unless the handle has     *)
(* been started; otherwise the group call with count = length().           *)
(***************************************************************************)
ChainCall(fn, failures, wait) ==
    /\ call.pc = "idle"
    /\ call' = IF chainH.started
               THEN NewCall(fn, chainH.cached, chainH.group, wait,
                            Len(chainH.chain), failures, TRUE)
               ELSE [NoCall EXCEPT !.pc = "done", !.fn = fn, !.handle = TRUE,
                                   !.wait = wait, !.failures = failures]
    /\ UNCHANGED <<others, ConfCACHED, ConfSYNC, nextId, queue, running, store, cache,
                   chainH, last, subs>>

ChainResult(wait) == ChainCall("result_group", FALSE, wait)

ChainFetch(failures, wait) == ChainCall("fetch_group", failures, wait)

(***************************************************************************)
(* Chain.current: the group's count in the handle's backend, or nothing    *)
(* when the handle has not been started.                                   *)
(***************************************************************************)
ChainCurrent ==
    /\ call.pc = "idle"
    /\ call' =
         IF chainH.started
         THEN LET c == count_group(chainH.group, FALSE, chainH.cached)
              IN [NoCall EXCEPT !.pc = "done", !.fn = "current",
                                !.handle = TRUE, !.cached = chainH.cached,
                                !.target = chainH.group, !.checks = 1,
                                !.absent = (c = None), !.val = <<c>>]
         ELSE [NoCall EXCEPT !.pc = "done", !.fn = "current", !.handle = TRUE]
    /\ UNCHANGED <<others, ConfCACHED, ConfSYNC, nextId, queue, running, store,
                   cache, chainH, last, subs>>

(***************************************************************************)
(* Iter.result and Iter.fetch: nothing is read unless the handle has been  *)
(* started; otherwise result / fetch of the handle's id.                   *)
(***************************************************************************)
IterCall(fn, wait) ==
    /\ call.pc = "idle"
    /\ call' = IF iterH.started
               THEN NewCall(fn, iterH.cached, iterH.id, wait, 0, FALSE, TRUE)
               ELSE [NoCall EXCEPT !.pc = "done", !.fn = fn, !.handle = TRUE,
                                   !.wait = wait]
    /\ UNCHANGED <<others, ConfCACHED, ConfSYNC, nextId, queue, running, store,
                   cache, chainH, last, subs>>

IterResult(wait) == IterCall("result", wait)

IterFetch(wait) == IterCall("fetch", wait)

Poll ==
    \/ \E d \in Delays : CountCheck(d)
    \/ \E d \in Delays : ReadCheck(d)

(***************************************************************************)
(* A cache-mode group read taken one cache operation at a time: one pass   *)
(* of result_group_cached or fetch_group_cached (wait = 0), or one call of *)
(* count_group_cached.  The first step reads the group's key list; each    *)
(* later step gets one listed entry and opens it with the codec, which     *)
(* raises when the entry is gone (cache.get gave None).                    *)
(***************************************************************************)
ReaderStart(fn, group_id, failures) ==
    /\ reader.pc = "idle"
    /\ reader' = [NoReader EXCEPT !.pc = "index", !.fn = fn,
                                  !.group = group_id, !.failures = failures]
    /\ UNCHANGED <<ConfCACHED, ConfSYNC, nextId, queue, running, store, cache,
                   chainH, call, last, subs, iterH, qopts, deleter>>

ReaderIndex ==
    /\ reader.pc = "index"
    /\ LET c == cache[DefaultBroker]
           group_list == IF GroupKey(reader.group) \in DOMAIN c
                         THEN c[GroupKey(reader.group)] ELSE <<>>
       IN reader' =
            IF ~ListTruthy(group_list)
            THEN [reader EXCEPT !.pc = "done", !.absent = TRUE]
            ELSE IF reader.fn = "count_group" /\ ~reader.failures
            THEN [reader EXCEPT !.pc = "done", !.out = <<Len(group_list)>>]
            ELSE [reader EXCEPT !.pc = "member", !.keys = group_list, !.i = 1]
    /\ UNCHANGED <<ConfCACHED, ConfSYNC, nextId, queue, running, store, cache,
                   chainH, call, last, subs, iterH, qopts, deleter>>

ReaderTake(task) ==
    IF reader.fn = "count_group" THEN IF task.success THEN <<>> ELSE <<1>>
    ELSE IF ~(task.success \/ reader.failures) THEN <<>>
    ELSE IF reader.fn = "result_group" THEN <<task.result>>
    ELSE <<TaskObject(task, TaskFields \cup {"group"})>>

ReaderMember ==
    /\ reader.pc = "member"
    /\ LET c == cache[DefaultBroker]
           task_key == reader.keys[reader.i]
       IN reader' =
            IF task_key \notin DOMAIN c
            THEN [reader EXCEPT !.pc = "done", !.raised = TRUE]
            ELSE [reader EXCEPT
                    !.out = @ \o ReaderTake(loads(c[task_key])),
                    !.i = @ + 1,
                    !.pc = IF reader.i = Len(reader.keys) THEN "done"
                           ELSE "member"]
    /\ UNCHANGED <<ConfCACHED, ConfSYNC, nextId, queue, running, store, cache,
                   chainH, call, last, subs, iterH, qopts, deleter>>

(***************************************************************************)
(* delete_group_cached taken one cache operation at a time: get the key    *)
(* list, delete_many of it, delete of the index.                           *)
(***************************************************************************)
DeleterStart(group_id) ==
    /\ deleter.pc = "idle"
    /\ deleter' = [NoDeleter EXCEPT !.pc = "get", !.group = group_id]
    /\ UNCHANGED <<ConfCACHED, ConfSYNC, nextId, queue, running, store, cache,
                   chainH, call, last, subs, iterH, qopts, reader>>

DeleterGet ==
    /\ deleter.pc = "get"
    /\ LET c == cache[DefaultBroker]
           has == GroupKey(deleter.group) \in DOMAIN c
       IN deleter' = [deleter EXCEPT
                        !.pc = "many", !.found = has,
                        !.keys = IF has THEN c[GroupKey(deleter.group)]
                                 ELSE <<>>]
    /\ UNCHANGED <<ConfCACHED, ConfSYNC, nextId, queue, running, store, cache,
                   chainH, call, last, subs, iterH, qopts, reader>>

DeleterMany ==
    /\ deleter.pc = "many"
    /\ IF ~deleter.found
       THEN /\ deleter' = [deleter EXCEPT !.pc = "done", !.raised = TRUE]
            /\ cache' = cache
       ELSE /\ deleter' = [deleter EXCEPT !.pc = "index"]
            /\ cache' = [cache EXCEPT ![DefaultBroker] =
                            [k \in (DOMAIN @) \
                                {deleter.keys[i] : i \in 1..Len(deleter.keys)}
                             |-> @[k]]]
    /\ UNCHANGED <<ConfCACHED, ConfSYNC, nextId, queue, running, store,
                   chainH, call, last, subs, iterH, qopts, reader>>

DeleterIndex ==
    /\ deleter.pc = "index"
    /\ deleter' = [deleter EXCEPT !.pc = "done"]
    /\ cache' = [cache EXCEPT ![DefaultBroker] =
                    [k \in (DOMAIN @) \ {GroupKey(deleter.group)} |-> @[k]]]
    /\ UNCHANGED <<ConfCACHED, ConfSYNC, nextId, queue, running, store,
                   chainH, call, last, subs, iterH, qopts, reader>>

(***************************************************************************)
(* Retrieval calls against tasks submitted with async.                     *)
(***************************************************************************)
InitPoll == InitWith({FALSE}, {<<>>}, {0}, FALSE)

NextPoll ==
    \/ \E kw \in PollKws : Submit("f1", <<1>>, kw)
    \/ Worker
    \/ \E fn \in {"result", "fetch"}, c \in BOOLEAN, w \in Waits :
            CallStart(fn, c, 1, w, 0, FALSE)
    \/ \E fn \in {"result_group", "fetch_group"}, c \in BOOLEAN, w \in Waits,
          n \in Counts, f \in BOOLEAN :
            CallStart(fn, c, UserGroup, w, n, f)
    \/ Poll

SpecPoll == InitPoll /\ [][NextPoll]_vars

(***************************************************************************)
(* Group retrievals called with count, against members of one group.       *)
(***************************************************************************)
NextCount ==
    \/ \E kw \in PollKws \ {[x |-> 1]} : Submit("f1", <<1>>, kw)
    \/ Worker
    \/ \E fn \in {"result_group", "fetch_group"}, c \in BOOLEAN, w \in Waits,
          n \in Counts \ {0}, f \in BOOLEAN :
            CallStart(fn, c, UserGroup, w, n, f)
    \/ Poll

SpecCount == InitPoll /\ [][NextCount]_vars

(***************************************************************************)
(* Plain submissions and the cluster.                                      *)
(***************************************************************************)
InitSubmit == InitWith(BOOLEAN, {<<>>}, {0}, FALSE)

NextSubmit ==
    \/ \E kw \in SubmitKws : Submit("f1", <<1>>, kw)
    \/ Worker

SpecSubmit == InitSubmit /\ [][NextSubmit]_vars

(***************************************************************************)
(* Submissions that all pass one options mapping, and the cluster.         *)
(***************************************************************************)
SharedOptions ==
    {[group |-> UserGroup, hook |-> "h", cached |-> TRUE, sync |-> FALSE,
      broker |-> "alt"],
     [group |-> UserGroup, cached |-> TRUE, sync |-> TRUE],
     [group |-> UserGroup, broker |-> "alt"],
     [cached |-> FALSE]}

InitShared ==
    /\ InitCore(BOOLEAN, {<<>>}, {0}, FALSE)
    /\ qopts \in SharedOptions

NextShared ==
    \/ SubmitShared("f1", <<1>>)
    \/ Worker

SpecShared == InitShared /\ [][NextShared]_vars

(***************************************************************************)
(* A Chain handle and an Iter handle built and run, and the cluster.       *)
(***************************************************************************)
NextGroups ==
    \/ ChainAppend(FuncAt(Len(chainH.chain) + 1), <<1>>, [x |-> 1])
    \/ ChainRun
    \/ IterAppend(1)
    \/ IterRun
    \/ ChainWorker

SpecGroups == Init /\ [][NextGroups]_vars

(***************************************************************************)
(* One fan-out and the cluster.                                            *)
(***************************************************************************)
NextIter ==
    \/ \E a \in IterArgSets, kw \in IterKws : SubmitIter("f1", a, kw)
    \/ Worker

SpecIter == InitSubmit /\ [][NextIter]_vars

(***************************************************************************)
(* One Chain handle and the cluster.                                       *)
(***************************************************************************)
NextChain ==
    \/ ChainAppend(FuncAt(Len(chainH.chain) + 1), <<1>>, [x |-> 1])
    \/ ChainRun
    \/ ChainWorker

SpecChain == Init /\ [][NextChain]_vars

(***************************************************************************)
(* One Chain handle, the cluster, and calls of the handle's result/fetch.  *)
(***************************************************************************)
InitCalls == InitWith(BOOLEAN, {<<>>}, {0}, TRUE)

Next ==
    \/ NextChain
    \/ \E w \in Waits : ChainResult(w)
    \/ \E f \in BOOLEAN, w \in Waits : ChainFetch(f, w)
    \/ Poll

Spec == InitCalls /\ [][Next]_vars

(***************************************************************************)
(* A cache-mode group read next to a delete_group_cached and the cluster.  *)
(***************************************************************************)
NextRace ==
    \/ Submit("f1", <<1>>, [x |-> 1, group |-> UserGroup, cached |-> TRUE])
    \/ Worker
    \/ \E fn \in {"result_group", "fetch_group", "count_group"},
          f \in BOOLEAN : ReaderStart(fn, UserGroup, f)
    \/ ReaderIndex
    \/ ReaderMember
    \/ DeleterStart(UserGroup)
    \/ DeleterGet
    \/ DeleterMany
    \/ DeleterIndex

SpecRace == InitPoll /\ [][NextRace]_vars

(***************************************************************************)
(* Submissions, the cluster and a caller deleting the group.               *)
(***************************************************************************)
DeleteCached(task_id) ==
    /\ cache' = delete_cached(World, task_id, NoBroker).cache
    /\ last' = [NoLast EXCEPT !.op = "delete_cached",
                              !.inp = [task_id |-> task_id]]
    /\ UNCHANGED <<others, ConfCACHED, ConfSYNC, nextId, queue, running,
                   store, chainH, call, subs>>

NextDelete ==
    \/ \E kw \in PollKws : Submit("f1", <<1>>, kw)
    \/ Worker
    \/ \E t \in BOOLEAN, c \in BOOLEAN : DeleteGroup(UserGroup, t, c)
    \/ \E id \in 1..MaxIds : DeleteCached(id)

SpecDelete == InitPoll /\ [][NextDelete]_vars

(***************************************************************************)
(* One Chain handle, one Iter handle, the cluster and the handles' calls.  *)
(***************************************************************************)
NextHandles ==
    \/ ChainAppend(FuncAt(Len(chainH.chain) + 1), <<1>>, [x |-> 1])
    \/ ChainRun
    \/ IterAppend(1)
    \/ IterRun
    \/ ChainWorker
    \/ \E w \in Waits : ChainResult(w)
    \/ \E f \in BOOLEAN, w \in Waits : ChainFetch(f, w)
    \/ ChainCurrent
    \/ \E w \in Waits : IterResult(w)
    \/ \E w \in Waits : IterFetch(w)
    \/ Poll

SpecHandles == InitCalls /\ [][NextHandles]_vars

(***************************************************************************)
(* Vocabulary of the properties.                                           *)
(***************************************************************************)
RecordedIn(st, ch, id) ==
    \/ \E i \in 1..Len(st) : st[i].id = id
    \/ \E b \in Brokers : TaskKey(id) \in DOMAIN ch[b]

Recorded(id) == RecordedIn(store, cache, id)

CallerSubs(base) == {i \in (base + 1)..Len(subs) : subs[i].by = "caller"}

CachedMembers(b, g) ==
    IF GroupKey(g) \in DOMAIN cache[b] THEN Len(cache[b][GroupKey(g)]) ELSE 0

CalleeKwargs(kw) == DictWithout(kw, OptKeys \cup {"broker"})

(***************************************************************************)
(* C5: every async call takes exactly one of two paths.  When the          *)
(* package's sync field is true or Conf.SYNC is set, the task is run and   *)
(* its record saved before async returns and nothing is enqueued;          *)
(* otherwise the signed package is enqueued exactly once on the chosen     *)
(* broker and nothing is run or saved.  Either way async returns the id    *)
(* stored in the package.                                                  *)
(***************************************************************************)
C5_Step ==
    (last' # last /\ last'.op = "async") =>
        LET e == subs'[Len(subs')]
        IN /\ Len(subs') = Len(subs) + 1
           /\ last'.ret = e.task.id
           /\ IF DictGet(e.task, "sync", FALSE) \/ ConfSYNC
              THEN /\ last'.enq = 0
                   /\ last'.exe = 1
                   /\ queue' = queue
                   /\ RecordedIn(store', cache', e.task.id)
                   /\ ~RecordedIn(store, cache, e.task.id)
              ELSE /\ last'.enq = 1
                   /\ last'.exe = 0
                   /\ queue' = [queue EXCEPT ![e.broker] =
                                    Append(@, dumps(e.task))]
                   /\ store' = store
                   /\ cache' = cache

C5_AsyncTakesOnePath == [][C5_Step]_vars

C5_Witness ==
    /\ Len(subs) = 2
    /\ subs[1].sync /\ ~subs[2].sync
    /\ last.op = "async" /\ last.enq = 1
    /\ Recorded(subs[1].task.id)

(***************************************************************************)
(* C6: async_iter over N argument sets makes exactly N submissions, with   *)
(* pairwise distinct task ids, each carrying the returned fresh group id,  *)
(* iter_count = N and cached = true; the group's recorded member count     *)
(* never exceeds N, and under a fair worker it eventually equals N.        *)
(***************************************************************************)
C6_Inv ==
    last.op = "async_iter" =>
        LET N == Len(last.inp)
            g == last.ret
        IN /\ Len(subs) = N
           /\ \A i \in 1..N :
                /\ subs[i].by = "caller"
                /\ subs[i].task.group = g
                /\ subs[i].task.iter_count = N
                /\ subs[i].task.cached = TRUE
                /\ subs[i].task.id # g
                /\ subs[i].task.args = IterArgs(last.inp[i])
                /\ \A j \in 1..N : i # j => subs[i].task.id # subs[j].task.id
           /\ CachedMembers(DefaultBroker, g) <= N

C6_Done ==
    last.op = "async_iter"
        /\ CachedMembers(DefaultBroker, last.ret) = Len(last.inp)

C6_FanOut == [](C6_Inv) /\ ((last.op = "async_iter") ~> C6_Done)

C6_Witness ==
    /\ last.op = "async_iter"
    /\ Len(last.inp) = 2
    /\ CachedMembers(DefaultBroker, last.ret) = 2
    /\ last.enq = 2

FairSpecIter == SpecIter /\ WF_vars(Worker)

(***************************************************************************)
(* C7: async_chain on a non-empty sequence of k steps makes exactly one    *)
(* submission of its own.  The package is for steps[0] (its function, its  *)
(* arguments and its callee kwargs), its chain field is steps[1..k-1] in   *)
(* the original order, it carries the given group (a fresh id when none    *)
(* was given) and the given cached and sync values, and the call returns   *)
(* that group id.                                                          *)
(***************************************************************************)
C7_AsyncChainSubmitsFirst ==
    (last.op = "async_chain" /\ last.inp.chain # <<>>) =>
        LET inp == last.inp
            first == StepTuple(inp.chain[1])
            e == subs[last.base + 1]
        IN /\ ~last.raised
           /\ CallerSubs(last.base) = {last.base + 1}
           /\ e.task.func = first[1]
           /\ e.task.args = (IF Len(first) > 1 THEN first[2] ELSE <<>>)
           /\ e.task.kwargs = (IF Len(first) > 2 THEN CalleeKwargs(first[3])
                               ELSE EmptyDict)
           /\ e.task.chain = Tail(inp.chain)
           /\ e.task.cached = inp.cached
           /\ e.task.sync = inp.sync
           /\ e.task.group = last.ret
           /\ inp.group # 0 => last.ret = inp.group
           /\ inp.group = 0 =>
                \A i \in 1..Len(subs) :
                    /\ subs[i].task.id # last.ret
                    /\ i <= last.base => subs[i].task.group # last.ret

C7_Witness ==
    /\ last.op = "async_chain"
    /\ Len(last.inp.chain) = 2
    /\ last.inp.group # 0
    /\ last.base > 0
    /\ Len(subs[last.base + 1].task.chain) = 1

(***************************************************************************)
(* C8: for a chain submitted by one Chain.run, with the worker resubmitting*)
(* the head of a finished package's chain: the steps are submitted in the  *)
(* builder's order, a step is submitted only after the one before it has   *)
(* been recorded, and at most one step is queued or executing at any time. *)
(***************************************************************************)
RunOnce == last.op = "async_chain" /\ CallerSubs(0) = {1}

C8_ChainOrder ==
    RunOnce =>
        /\ Len(subs) <= Len(last.inp.chain)
        /\ \A i \in 1..Len(subs) :
              /\ subs[i].task.func = StepTuple(last.inp.chain[i])[1]
              /\ i < Len(subs) => Recorded(subs[i].task.id)
              /\ i > 1 => subs[i].by = "worker"
        /\ Len(queue[DefaultBroker]) + Cardinality(running) <= 1

C8_Witness ==
    /\ RunOnce
    /\ Len(subs) = 2
    /\ subs[2].by = "worker"
    /\ Len(queue[DefaultBroker]) = 1
    /\ last.enq = 1

(***************************************************************************)
(* Vocabulary of the retrieval properties: whether the backend a call      *)
(* selects holds what the call asks for, and how many members of a group   *)
(* that backend has recorded.                                              *)
(***************************************************************************)
BackendHas(fn, cached, target, failures) ==
    IF IsGroupFn(fn)
    THEN IF cached THEN group_cached_found(target, DefaultBroker)
         ELSE Task_get_task_group(target, failures) # <<>>
    ELSE IF cached THEN TaskKey(target) \in DOMAIN cache[DefaultBroker]
         ELSE Task_rows(target) # <<>>

MemberCount(cached, g) ==
    IF cached THEN CachedMembers(DefaultBroker, g)
    ELSE Task_get_group_count(g, FALSE)

CallHas == BackendHas(call.fn, call.cached, call.target, call.failures)

CallValue == Read(call.fn, call.cached, call.target, call.failures).val

CallWanted ==
    /\ CallHas
    /\ call.count # 0 => MemberCount(call.cached, call.target) = call.count

CheckStep ==
    /\ call.pc \in {"count", "read"}
    /\ \/ call'.pc # call.pc
       \/ call'.checks # call.checks
       \/ call'.cchecks # call.cchecks
       \/ call'.elapsed # call.elapsed
       \/ call'.beat # call.beat

FairSpecPoll == SpecPoll /\ WF_vars(Poll) /\ WF_vars(Worker)

FairSpec == Spec /\ WF_vars(Poll) /\ WF_vars(ChainWorker)

(***************************************************************************)
(* C1: a retrieval of a single task, or of a group without count, called   *)
(* with wait = 0 makes one check and never sleeps: it returns the value    *)
(* when the selected backend holds it at that check, and the absent value  *)
(* otherwise.                                                              *)
(***************************************************************************)
C1_Step ==
    (CheckStep /\ call.wait = 0 /\ call.count = 0) =>
        /\ call'.pc = "done"
        /\ call'.checks = 1
        /\ call'.sleeps = 0
        /\ call'.elapsed = 0
        /\ IF CallHas THEN ~call'.absent /\ call'.val = <<CallValue>>
           ELSE call'.absent

C1_WaitZeroChecksOnce == [][C1_Step]_vars

(***************************************************************************)
(* The part of C1 that does not depend on what the check takes for a       *)
(* value: one check, no sleep, and the outcome of that check is returned.  *)
(***************************************************************************)
C1_OnePass ==
    (call.wait = 0 /\ call.count = 0 /\ ~call.handle) =>
        /\ call.sleeps = 0 /\ call.elapsed = 0
        /\ call.pc = "done" => call.checks = 1
        /\ call.pc = "read" => call.checks = 0

(***************************************************************************)
(* C2: result and fetch called with wait < 0 never return the absent       *)
(* value, return only when the selected backend holds the task's record,   *)
(* and once the record is there the call eventually returns its result,    *)
(* whatever the stored value is.                                           *)
(***************************************************************************)
C2_Step ==
    (CheckStep /\ call.wait < 0 /\ ~IsGroupFn(call.fn) /\ call'.pc = "done") =>
        /\ ~call'.absent
        /\ CallHas
        /\ call'.val = <<CallValue>>

C2_Blocked == call.pc = "read" /\ call.wait < 0 /\ ~IsGroupFn(call.fn)

C2_WaitForever ==
    /\ [][C2_Step]_vars
    /\ [](C2_Blocked /\ CallHas => <>(call.pc = "done"))

(***************************************************************************)
(* C3: a retrieval called with wait > 0 never sleeps when what it asks for *)
(* is there at its first check, returns the value at the first check that  *)
(* finds it, returns the absent value only at the first check at which the *)
(* elapsed time has reached wait, and always terminates.                   *)
(***************************************************************************)
C3_Step ==
    (CheckStep /\ call.wait > 0) =>
        /\ (call.checks = 0 /\ call.cchecks = 0 /\ CallWanted) =>
                call'.sleeps = 0
        /\ (call.pc = "read" /\ CallHas) =>
                call'.pc = "done" /\ ~call'.absent /\ call'.val = <<CallValue>>
        /\ (call'.pc = "done" /\ call'.absent) =>
                /\ call.elapsed >= call.wait
                /\ call.prev # None => call.prev < call.wait

C3_Running == call.pc \in {"count", "read"} /\ call.wait > 0

C3_PositiveWait == [][C3_Step]_vars /\ (C3_Running ~> (call.pc = "done"))

C3_Terminates == C3_Running ~> (call.pc = "done")

(***************************************************************************)
(* C4 as stated: with count given and wait = 0 the count is checked once   *)
(* and the call goes on without sleeping.                                  *)
(***************************************************************************)
C4_CountWaitZeroNoSleep ==
    (call.count # 0 /\ call.wait = 0) => call.sleeps = 0 /\ call.cchecks <= 1

(***************************************************************************)
(* What the count loop does with wait = 0: it has no timeout.  A count     *)
(* check that does not read exactly count is followed by a sleep and       *)
(* another check; the call reaches its result loop only from a check that  *)
(* read exactly count.                                                     *)
(***************************************************************************)
C4_Step ==
    (CheckStep /\ call.pc = "count" /\ call.wait = 0) =>
        IF CountRead(call.cached, call.target) = call.count
        THEN call'.pc = "read" /\ call'.sleeps = call.sleeps
        ELSE call'.pc = "count" /\ call'.sleeps = Tick(call.sleeps)
                /\ call'.beat # call.beat

C4_Inv ==
    (call.count # 0 /\ call.wait = 0 /\ call.pc \in {"read", "done"}) =>
        call.cmatch

C4_CountWaitZeroBlocks == [](C4_Inv) /\ [][C4_Step]_vars

C4_Witness ==
    /\ call.count # 0 /\ call.wait = 0
    /\ call.pc = "done" /\ ~call.absent
    /\ call.sleeps > 0
    /\ call.cmatch

(***************************************************************************)
(* C9: for a chain of N steps run once, with every step succeeding and a   *)
(* fair worker, the group's member count eventually equals N and           *)
(* Chain.result(wait=-1) eventually returns a list of exactly N results.   *)
(***************************************************************************)
C9_Premise ==
    /\ RunOnce
    /\ chainH.started
    /\ \A i \in 1..Len(store) : store[i].success
    /\ \A k \in DOMAIN cache[DefaultBroker] :
          k[1] = "task" => loads(cache[DefaultBroker][k]).success

C9_Waiting ==
    /\ C9_Premise
    /\ call.handle /\ call.fn = "result_group" /\ call.wait = -1
    /\ call.pc \in {"count", "read"}
    /\ call.count = Len(last.inp.chain)

C9_Returned ==
    call.pc = "done" /\ ~call.absent /\ Len(call.val[1]) = call.count

C9_Counted == MemberCount(chainH.cached, chainH.group) = Len(last.inp.chain)

C9_ChainCompletes ==
    /\ C9_Premise ~> (~C9_Premise \/ C9_Counted)
    /\ C9_Waiting ~> (~C9_Premise \/ C9_Returned)

C9_CountReached == C9_Premise ~> (~C9_Premise \/ C9_Counted)

(***************************************************************************)
(* C10: Chain.result and Chain.fetch return a value other than the absent  *)
(* one only when the group's member count equals length(); a call whose    *)
(* wait runs out before that returns the absent value.  Stated for a       *)
(* handle that has been run once.                                          *)
(***************************************************************************)
C10_Step ==
    (CheckStep /\ call.handle /\ call'.pc = "done" /\ RunOnce
        /\ MemberCount(call.cached, call.target) # call.count) =>
            call'.absent

C10_ChainResultComplete == [][C10_Step]_vars

(***************************************************************************)
(* C11: Chain.append on a started handle deletes the previous run's group  *)
(* data in the backend the handle uses (the cache when the handle's cached *)
(* is true, the durable store otherwise, whatever Conf.CACHED is) and sets *)
(* started to false: right after the append that backend counts no member  *)
(* of the handle's group.                                                  *)
(***************************************************************************)
AppendStep == Len(chainH'.chain) = Len(chainH.chain) + 1

C11_Step ==
    (AppendStep /\ chainH.started) =>
        /\ ~chainH'.started
        /\ MemberCount(chainH.cached, chainH.group)' = 0

C11_AppendDeletesGroup == [][C11_Step]_vars

(***************************************************************************)
(* C12: for the Iter and the Chain handle, started is true exactly when    *)
(* the handle's most recent append/run call was run (a handle never        *)
(* touched is not started, and no other step changes the flag); result,    *)
(* fetch and Chain.current on a handle that is not started return the      *)
(* absent value without a read and without raising; Iter.append touches    *)
(* neither broker nor cache nor store.                                     *)
(***************************************************************************)
ChainOps == {"append", "async_chain"}

IterOps == {"iter_append", "iter_run"}

CallOnChain == call.fn \in {"result_group", "fetch_group", "current"}

C12_Inv ==
    /\ last.op = "none" => ~chainH.started /\ ~iterH.started
    /\ last.op = "append" => ~chainH.started
    /\ last.op = "async_chain" => chainH.started
    /\ last.op = "iter_append" => ~iterH.started
    /\ last.op = "iter_run" => iterH.started

C12_Step ==
    /\ chainH'.started # chainH.started => last'.op \in ChainOps
    /\ iterH'.started # iterH.started => last'.op \in IterOps
    /\ last' # last /\ last'.op \in ChainOps => iterH'.started = iterH.started
    /\ last' # last /\ last'.op \in IterOps => chainH'.started = chainH.started
    /\ (call.pc = "idle" /\ call'.pc # "idle" /\ call'.handle
            /\ ~(IF CallOnChain' THEN chainH.started ELSE iterH.started)) =>
          /\ call'.pc = "done" /\ call'.absent
          /\ call'.checks = 0 /\ call'.cchecks = 0 /\ call'.sleeps = 0
    /\ last'.op = "iter_append" /\ last' # last =>
          /\ ~last'.raised
          /\ UNCHANGED <<nextId, queue, running, store, cache, subs>>

C12_StartedFlag == [](C12_Inv) /\ [][C12_Step]_vars

(***************************************************************************)
(* C13: Chain.run leaves the builder's step sequence as it was: the same   *)
(* number of steps, and every step's func, args and kwargs unchanged.      *)
(***************************************************************************)
RunStep == last' # last /\ last'.op = "async_chain"

C13_Step == RunStep => chainH'.chain = chainH.chain

C13_RunKeepsSteps == [][C13_Step]_vars

(***************************************************************************)
(* What Chain.run does keep: the number of steps, each step's func and     *)
(* args, and the package a second run submits.                             *)
(***************************************************************************)
C13_Kept ==
    [][RunStep =>
        /\ Len(chainH'.chain) = Len(chainH.chain)
        /\ \A i \in 1..Len(chainH.chain) :
              /\ Len(StepTuple(chainH'.chain[i])) = Len(StepTuple(chainH.chain[i]))
              /\ \A j \in 1..Min(2, Len(StepTuple(chainH.chain[i]))) :
                    StepTuple(chainH'.chain[i])[j] = StepTuple(chainH.chain[i])[j]
        /\ (last.op = "async_chain" /\ ~ConfSYNC /\ ~chainH.sync) =>
              subs'[Len(subs')].task.kwargs = subs[last.base + 1].task.kwargs
                /\ subs'[Len(subs')].task.chain = subs[last.base + 1].task.chain]_vars

(***************************************************************************)
(* C14: in cache mode, delete_group (with either value of tasks) on a      *)
(* group that has recorded members removes the group's index and every     *)
(* member entry the index lists and no other cache key; afterwards         *)
(* count_group gives the absent value, result_group / fetch_group find     *)
(* nothing at a check, and result_cached / fetch_cached find none of the   *)
(* former members.                                                         *)
(***************************************************************************)
DeleteStep ==
    /\ last'.op = "delete_group"
    /\ UNCHANGED <<queue, running, subs>>
    /\ last' # last \/ cache' # cache \/ store' # store

KeysOf(l) == {l[i] : i \in 1..Len(l)}

C14_Step ==
    \A g \in {UserGroup} :
        (/\ DeleteStep
         /\ last'.inp.group = g
         /\ last'.inp.cached
         /\ CachedMembersIn(cache, DefaultBroker, g) > 0) =>
            LET c == cache[DefaultBroker]
                gone == KeysOf(c[GroupKey(g)]) \cup {GroupKey(g)}
            IN /\ ~last'.raised
               /\ DOMAIN cache'[DefaultBroker] = (DOMAIN c) \ gone
               /\ \A k \in (DOMAIN c) \ gone : cache'[DefaultBroker][k] = c[k]
               /\ cache'["alt"] = cache["alt"]
               /\ store' = store
               /\ \A f \in BOOLEAN :
                     /\ count_group(g, f, TRUE)' = None
                     /\ ~Read("result_group", TRUE, g, f)'.found
                     /\ ~Read("fetch_group", TRUE, g, f)'.found
               /\ \A id \in 1..MaxIds :
                     TaskKey(id) \in gone =>
                        /\ ~Read("result", TRUE, id, FALSE)'.found
                        /\ ~Read("fetch", TRUE, id, FALSE)'.found

C14_DeleteGroupCached == [][C14_Step]_vars

C14_Witness ==
    /\ last.op = "delete_group" /\ last.inp.cached /\ ~last.raised
    /\ last.inp.members = 1
    /\ DOMAIN cache[DefaultBroker] # {}
    /\ GroupKey(UserGroup) \notin DOMAIN cache[DefaultBroker]

(***************************************************************************)
(* Vocabulary: the finished records saved under an id, in the store or in  *)
(* a cache.                                                                *)
(***************************************************************************)
RecordsOf(id) ==
    {store[i] : i \in {j \in 1..Len(store) : store[j].id = id}}
        \cup {loads(cache[b][TaskKey(id)]) :
                b \in {x \in Brokers : TaskKey(id) \in DOMAIN cache[x]}}

SyncCall ==
    /\ last.op = "async"
    /\ DictGet(subs[last.base + 1].task, "sync", FALSE)

(***************************************************************************)
(* C15 as stated: async called with sync=True returns the finished result  *)
(* of the submitted function.                                              *)
(***************************************************************************)
C15_SyncReturnsResult ==
    SyncCall => \A r \in RecordsOf(subs[last.base + 1].task.id) :
                    last.ret = r.result

(***************************************************************************)
(* C15 amended: async called with sync=True returns the task id, as the    *)
(* queued path does; the call leaves exactly one record under that id,     *)
(* for the submitted function, and the record holds a result.              *)
(***************************************************************************)
C15_SyncReturnsId ==
    SyncCall =>
        /\ last.ret = subs[last.base + 1].task.id
        /\ Cardinality(RecordsOf(last.ret)) = 1
        /\ \A r \in RecordsOf(last.ret) :
              "result" \in DOMAIN r /\ r.func = subs[last.base + 1].task.func

C15_Witness ==
    /\ SyncCall
    /\ ~ConfSYNC
    /\ \E r \in RecordsOf(last.ret) : r.result = 7 /\ r.success

(***************************************************************************)
(* Vocabulary: the (result, success) pairs of a group's members, as the    *)
(* default cache lists them and as the durable store holds them.           *)
(***************************************************************************)
Content(rec) == <<rec.result, rec.success>>

CachedGroupContent(g) ==
    LET c == cache[DefaultBroker]
        l == IF GroupKey(g) \in DOMAIN c THEN c[GroupKey(g)] ELSE <<>>
    IN [i \in 1..Len(l) |-> Content(loads(c[l[i]]))]

StoredGroupContent(g) ==
    LET rows == Task_get_task_group(g, TRUE)
    IN [i \in 1..Len(rows) |-> Content(rows[i])]

SameRead(x, y) == x.found = y.found /\ (x.found => x.val = y.val)

(***************************************************************************)
(* C16: the cached flag is a pure dispatch.  A finished record held in the *)
(* cache and one held in the durable store with the same result and        *)
(* success are read alike by result and fetch with cached=True and with    *)
(* cached=False; a group whose members have the same results and success   *)
(* flags in both backends is read alike by result_group and fetch_group;   *)
(* this for every result value and for groups whose members all failed.    *)
(***************************************************************************)
C16_PureDispatch ==
    /\ \A a \in 1..MaxIds, b \in 1..MaxIds :
          (/\ TaskKey(a) \in DOMAIN cache[DefaultBroker]
           /\ Task_rows(b) # <<>>
           /\ Content(loads(cache[DefaultBroker][TaskKey(a)]))
                = Content(Task_rows(b)[1])) =>
              /\ SameRead(Read("result", TRUE, a, FALSE),
                          Read("result", FALSE, b, FALSE))
              /\ Read("fetch", TRUE, a, FALSE).found
                    = Read("fetch", FALSE, b, FALSE).found
    /\ \A f \in BOOLEAN :
          (/\ CachedGroupContent(UserGroup) # <<>>
           /\ CachedGroupContent(UserGroup) = StoredGroupContent(UserGroup)) =>
              /\ SameRead(Read("result_group", TRUE, UserGroup, f),
                          Read("result_group", FALSE, UserGroup, f))
              /\ Read("fetch_group", TRUE, UserGroup, f).found
                    = Read("fetch_group", FALSE, UserGroup, f).found

(***************************************************************************)
(* C18: a group retrieval reads everything from the backend its arguments  *)
(* select.  The count phase of a call ends on a match exactly when the     *)
(* backend selected by the call's cached flag counts count members,        *)
(* whatever Conf.CACHED is; and the count a cache-mode call reads is the   *)
(* count of the broker it was given, whichever broker that is.             *)
(***************************************************************************)
C18_Step ==
    (CheckStep /\ call.pc = "count") =>
        /\ call'.cmatch <=> MemberCount(call.cached, call.target) = call.count
        /\ call.cached =>
              \A b \in Brokers :
                 call'.cmatch <=> CachedMembers(b, call.target) = call.count

C18_OneBackend == [][C18_Step]_vars

(***************************************************************************)
(* C17: a cache-mode group read (result_group_cached, fetch_group_cached,  *)
(* count_group_cached with failures) that runs next to a                   *)
(* delete_group_cached or a worker adding a member ends with a list, a     *)
(* count or the absent value: it never takes a key from the group index    *)
(* whose entry is gone and hands the missing entry to the codec.           *)
(***************************************************************************)
C17_SafeGroupReads == ~reader.raised

(***************************************************************************)
(* C19: async does not modify the caller's options mapping: the mapping    *)
(* passed as q_options is the same after the call as before it, and two    *)
(* consecutive calls given that mapping produce packages with the same     *)
(* option fields on the same broker.                                       *)
(***************************************************************************)
OptionFields(task) == [k \in (DOMAIN task) \cap OptKeys |-> task[k]]

SharedStep == Len(subs') = Len(subs) + 1

C19_SameOptions ==
    \A i, j \in DOMAIN subs :
        /\ OptionFields(subs[i].task) = OptionFields(subs[j].task)
        /\ subs[i].broker = subs[j].broker

C19_OptionsKept ==
    /\ [](C19_SameOptions)
    /\ [][SharedStep => qopts' = qopts]_vars

(***************************************************************************)
(* C20: a Chain handle's group id, once assigned by its first run or given *)
(* at construction, is never changed by a later append or run, and every   *)
(* run of the handle submits into that group; every Iter.run allocates a   *)
(* fresh group id, different from every id and group used before, and      *)
(* submits into it.  A run of a handle without steps raises: it submits    *)
(* nothing and assigns no group.                                           *)
(***************************************************************************)
UsedIds ==
    ({chainH.group, iterH.id} \ {0})
    \cup {subs[i].task.id : i \in DOMAIN subs}
    \cup {subs[i].task.group : i \in {j \in DOMAIN subs :
                                         "group" \in DOMAIN subs[j].task}}

NewSubsIn(g) ==
    \A i \in (Len(subs) + 1)..Len(subs') :
        /\ "group" \in DOMAIN subs'[i].task
        /\ subs'[i].task.group = g

IterRunStep == last' # last /\ last'.op = "iter_run"

C20_Step ==
    /\ chainH.group # 0 => chainH'.group = chainH.group
    /\ RunStep =>
          /\ last'.raised <=> chainH.chain = <<>>
          /\ last'.raised => chainH' = chainH /\ subs' = subs
          /\ ~last'.raised =>
                /\ chainH'.group # 0
                /\ chainH.group = 0 => chainH'.group \notin UsedIds
                /\ Len(subs') > Len(subs)
                /\ NewSubsIn(chainH'.group)
    /\ IterRunStep =>
          /\ iterH'.id # 0
          /\ iterH'.id \notin UsedIds
          /\ Len(subs') >= Len(subs) + Len(iterH.args)
          /\ NewSubsIn(iterH'.id)

C20_GroupIds == [][C20_Step]_vars

C20_Witness ==
    /\ last.op = "iter_run"
    /\ iterH.id \notin {0, chainH.group}
    /\ \E i \in DOMAIN subs : subs[i].task.id < iterH.id
    /\ chainH.started
    /\ chainH.group # 0
    /\ \E i, j \in DOMAIN subs :
          /\ i < j
          /\ subs[i].by = "caller" /\ subs[j].by = "caller"
          /\ subs[i].task.group = chainH.group
          /\ subs[j].task.group = chainH.group

(***************************************************************************)
(* The ids in use and the ids the cluster still owes stay within MaxIds,   *)
(* so no completion in the cluster waits for an id.                        *)
(***************************************************************************)
IdsWithinBound == nextId + IdsOwed(queue, running) <= MaxIds + 1

====
